---- MODULE Spec2Model ----
(***************************************************************************)
(* A model of app.js: the probability and scoreline functions (with the    *)
(* binary64 arithmetic JavaScript's Number performs), the in-memory cache  *)
(* and the asynchronous fetchStandings / fetchFixtures operations started  *)
(* by selectLeague and switchMode.                                         *)
(***************************************************************************)
EXTENDS Integers, Sequences, FiniteSets, Bags, TLC

(***************************************************************************)
(* JavaScript Number: IEEE 754 binary64, round to nearest, ties to even.   *)
(* A finite double is held exactly as sign and magnitude, the magnitude a  *)
(* fixed-point number of NumLimbs limbs of LimbBits bits (little-endian),  *)
(* the top limb the integer part and FracLimbs limbs the fraction. Every   *)
(* double of magnitude in [2^-22, 2^15) is such a number, which covers the *)
(* quotients of the small integers the model draws.                        *)
(***************************************************************************)
LimbBits == 15
NumLimbs == 6
FracLimbs == 5
MantissaBits == 53

Base == 2 ^ LimbBits
Limbs == 1 .. NumLimbs
FracBits == FracLimbs * LimbBits

BigZero == [i \in Limbs |-> 0]

\* the integer n (0 <= n < Base) as a fixed-point magnitude
BigOfInt(n) == [i \in Limbs |-> IF i = NumLimbs THEN n ELSE 0]

BitAt(x, b) == (x[(b \div LimbBits) + 1] \div (2 ^ (b % LimbBits))) % 2

\* index of the highest set bit, -1 for zero
TopBit(x) ==
    IF x = BigZero THEN -1
    ELSE LET i == CHOOSE k \in Limbs : x[k] # 0 /\ \A j \in Limbs : j > k => x[j] = 0
             b == CHOOSE c \in 0 .. (LimbBits - 1) : 2 ^ c <= x[i] /\ x[i] < 2 ^ (c + 1)
         IN  (i - 1) * LimbBits + b

\* whether any bit below position b is set
LowBitsSet(x, b) ==
    \E i \in Limbs :
        LET lo == (i - 1) * LimbBits
        IN  /\ lo < b
            /\ IF b >= lo + LimbBits THEN x[i] # 0 ELSE x[i] % (2 ^ (b - lo)) # 0

\* x with the bits below position cut cleared
Truncate(x, cut) ==
    [i \in Limbs |->
        LET lo == (i - 1) * LimbBits
        IN  IF cut <= lo THEN x[i]
            ELSE IF cut >= lo + LimbBits THEN 0
            ELSE x[i] - (x[i] % (2 ^ (cut - lo)))]

Pow2Big(b) ==
    [i \in Limbs |-> IF i = (b \div LimbBits) + 1 THEN 2 ^ (b % LimbBits) ELSE 0]

RECURSIVE AddCarry(_, _, _)
AddCarry(x, y, i) ==
    IF i = 1 THEN 0 ELSE (x[i - 1] + y[i - 1] + AddCarry(x, y, i - 1)) \div Base

BigAdd(x, y) == [i \in Limbs |-> (x[i] + y[i] + AddCarry(x, y, i)) % Base]

RECURSIVE SubBorrow(_, _, _)
SubBorrow(x, y, i) ==
    IF i = 1 THEN 0
    ELSE IF x[i - 1] - y[i - 1] - SubBorrow(x, y, i - 1) < 0 THEN 1 ELSE 0

\* x - y for x >= y
BigSub(x, y) == [i \in Limbs |-> (x[i] - y[i] - SubBorrow(x, y, i)) % Base]

BigLess(x, y) ==
    \E i \in Limbs : x[i] < y[i] /\ \A j \in Limbs : j > i => x[j] = y[j]

RECURSIVE MulCarry(_, _, _)
MulCarry(x, k, i) ==
    IF i = 1 THEN 0 ELSE (x[i - 1] * k + MulCarry(x, k, i - 1)) \div Base

\* x * k for a small positive integer k
BigMulInt(x, k) == [i \in Limbs |-> (x[i] * k + MulCarry(x, k, i)) % Base]

\* long division of n by d (0 <= n, 0 < d < Base): remainder left after limb i
RECURSIVE DivRem(_, _, _)
DivRem(n, d, i) ==
    IF i = NumLimbs THEN n % d ELSE (DivRem(n, d, i + 1) * Base) % d

\* floor(n / d) to FracBits fractional bits, and whether anything was cut off
BigDivInt(n, d) ==
    [mag |-> [i \in Limbs |->
                IF i = NumLimbs THEN n \div d
                ELSE (DivRem(n, d, i + 1) * Base) \div d],
     sticky |-> DivRem(n, d, 1) # 0]

\* round a magnitude (plus a sticky bit for what lies below it) to 53
\* significant bits, to nearest, ties to even
RoundToDouble(x, sticky) ==
    LET tb == TopBit(x)
        cut == tb - (MantissaBits - 1)
    IN  IF cut <= 0 THEN x
        ELSE LET half == BitAt(x, cut - 1) = 1
                 low == sticky \/ LowBitsSet(x, cut - 1)
                 odd == BitAt(x, cut) = 1
                 t == Truncate(x, cut)
             IN  IF half /\ (low \/ odd) THEN BigAdd(t, Pow2Big(cut)) ELSE t

DblZero == [neg |-> FALSE, mag |-> BigZero]

Abs(n) == IF n < 0 THEN -n ELSE n

\* the double of the integer n
DblOfInt(n) == [neg |-> n < 0, mag |-> BigOfInt(Abs(n))]

\* n / d in binary64, for integers n and d > 0
DblDiv(n, d) ==
    LET q == BigDivInt(Abs(n), d)
    IN  [neg |-> n < 0, mag |-> RoundToDouble(q.mag, q.sticky)]

\* x * k in binary64, for a double x and an integer k > 0
DblMulInt(x, k) == [neg |-> x.neg, mag |-> RoundToDouble(BigMulInt(x.mag, k), FALSE)]

DblNeg(x) == IF x.mag = BigZero THEN x ELSE [neg |-> ~x.neg, mag |-> x.mag]

\* x + y in binary64
DblAdd(x, y) ==
    IF x.neg = y.neg
    THEN [neg |-> x.neg, mag |-> RoundToDouble(BigAdd(x.mag, y.mag), FALSE)]
    ELSE IF x.mag = y.mag THEN DblZero
    ELSE IF BigLess(x.mag, y.mag)
    THEN [neg |-> y.neg, mag |-> RoundToDouble(BigSub(y.mag, x.mag), FALSE)]
    ELSE [neg |-> x.neg, mag |-> RoundToDouble(BigSub(x.mag, y.mag), FALSE)]

\* x - y in binary64
DblSub(x, y) == DblAdd(x, DblNeg(y))

\* Math.round: the nearest integer, ties towards +Infinity
MathRound(x) ==
    LET int == x.mag[NumLimbs]
        half == BitAt(x.mag, FracBits - 1) = 1
        low == LowBitsSet(x.mag, FracBits - 1)
    IN  IF ~x.neg THEN int + (IF half THEN 1 ELSE 0)
        ELSE -(int + (IF half /\ low THEN 1 ELSE 0))


(***************************************************************************)
(* Standings entries and the two prediction functions.  An entry is a      *)
(* record of the statistics the functions read; NoEntry is the null that   *)
(* findTeamEntryByName returns for a team it does not find.                *)
(***************************************************************************)
\* e.team: the names findTeamEntryByName reads (a name is a sequence of
\* characters, << >> for a field the provider left out)
Team(name, shortName, tla) == [name |-> name, shortName |-> shortName, tla |-> tla]

NoEntry == [team |-> Team(<< >>, << >>, << >>), position |-> 0, won |-> -1, draw |-> -1, lost |-> -1,
            playedGames |-> -1, goalDifference |-> 0]

MkEntry(name, pos, w, d, l, gd) ==
    [team |-> Team(name, << >>, << >>), position |-> pos, won |-> w, draw |-> d, lost |-> l,
     playedGames |-> w + d + l, goalDifference |-> gd]

\* line 146: the distribution returned when there is no data
FallbackProbabilities == [homePct |-> 50, drawPct |-> 30, awayPct |-> 20]

AwayPctForgetsDraw(homePct, drawPct) == 100 - homePct

\* line 151
AwayPctOf(homePct, drawPct) == 100 - homePct - drawPct

\* lines 149-150: Math.round((val / total) * 100)
PctOf(val, total) == MathRound(DblMulInt(DblDiv(val, total), 100))

\* lines 118-154, on the two entries findTeamEntryByName resolved
computeProbabilities(homeEntry, awayEntry) ==
    LET homeWins   == IF homeEntry # NoEntry THEN homeEntry.won ELSE 0
        homeDraws  == IF homeEntry # NoEntry THEN homeEntry.draw ELSE 0
        homeLosses == IF homeEntry # NoEntry THEN homeEntry.lost ELSE 0
        awayWins   == IF awayEntry # NoEntry THEN awayEntry.won ELSE 0
        awayDraws  == IF awayEntry # NoEntry THEN awayEntry.draw ELSE 0
        awayLosses == IF awayEntry # NoEntry THEN awayEntry.lost ELSE 0
        homeVal == homeWins + awayLosses
        drawVal == homeDraws + awayDraws
        awayVal == awayWins + homeDraws
        total == homeVal + drawVal + awayVal
    IN  IF total <= 0 THEN FallbackProbabilities
        ELSE LET homePct == PctOf(homeVal, total)
                 drawPct == PctOf(drawVal, total)
             IN  [homePct |-> homePct, drawPct |-> drawPct,
                  awayPct |-> AwayPctOf(homePct, drawPct)]

\* lines 185-186: 1.0, and the double nearest to 0.8
baselineHome == DblOfInt(1)
baselineAway == [neg |-> FALSE, mag |-> <<0, 19712, 6553, 13107, 26214, 0>>]

GoalsUnclamped(pred) == MathRound(pred)

\* lines 193-194, 197-198, 201-202: clamp, round, clamp again
GoalsOf(pred) ==
    LET clamped == IF pred.neg THEN DblZero ELSE pred
        goals == MathRound(clamped)
    IN  IF goals < 0 THEN 0 ELSE goals

\* lines 166-211, on the two entries findTeamEntryByName resolved
computeScoreline(homeEntry, awayEntry) ==
    LET homePlayed == IF homeEntry # NoEntry THEN homeEntry.playedGames ELSE 0
        awayPlayed == IF awayEntry # NoEntry THEN awayEntry.playedGames ELSE 0
        homeGD == IF homeEntry # NoEntry THEN homeEntry.goalDifference ELSE 0
        awayGD == IF awayEntry # NoEntry THEN awayEntry.goalDifference ELSE 0
        homeGDpm == IF homePlayed > 0 THEN DblDiv(homeGD, homePlayed) ELSE DblZero
        awayGDpm == IF awayPlayed > 0 THEN DblDiv(awayGD, awayPlayed) ELSE DblZero
        rawHome == DblSub(homeGDpm, awayGDpm)
        rawAway == DblSub(awayGDpm, homeGDpm)
        homeGoals == GoalsOf(DblAdd(rawHome, baselineHome))
        awayGoals == GoalsOf(DblAdd(rawAway, baselineAway))
    IN  IF homeGoals = 0 /\ awayGoals = 0
        THEN [homeGoals |-> 1, awayGoals |-> 1]
        ELSE [homeGoals |-> homeGoals, awayGoals |-> awayGoals]


(***************************************************************************)
(* What the data provider returns.  A payload is named by the league and   *)
(* the resource it was asked for and by its shape; StandingsOf / MatchesOf *)
(* give the parts of the JSON the program reads.                           *)
(***************************************************************************)
NumLeagues == 2
Leagues == 1 .. NumLeagues
NoLeague == 0

Keys == Leagues \X {"standings", "fixtures"}

NoData == [league |-> 0, mode |-> "none", shape |-> "none"]

StandingsShapes == {"total", "first", "none"}
FixturesShapes == {"long", "short", "none"}

Payloads(key) ==
    {[league |-> key[1], mode |-> key[2], shape |-> sh] :
        sh \in IF key[2] = "standings" THEN StandingsShapes ELSE FixturesShapes}

\* how a retrieval can fail: fetch rejects, res.ok is false, res.json() rejects
Failures == {[league |-> 0, mode |-> "error", shape |-> r] :
                r \in {"network", "status", "json"}}

IsPayload(o) == o.mode \in {"standings", "fixtures"}

TeamName(l, i) == <<l, i>>

TotalTable(l) ==
    << MkEntry(TeamName(l, 1), 1, 2, 1, 0, 3), MkEntry(TeamName(l, 2), 2, 0, 1, 2, -3) >>

HomeTable(l) ==
    << MkEntry(TeamName(l, 2), 2, 0, 0, 1, -1), MkEntry(TeamName(l, 1), 1, 1, 0, 0, 1) >>

\* data.standings
StandingsOf(p) ==
    IF p.shape = "total"
    THEN << [type |-> "HOME", table |-> HomeTable(p.league)],
            [type |-> "TOTAL", table |-> TotalTable(p.league)] >>
    ELSE IF p.shape = "first"
    THEN << [type |-> "HOME", table |-> HomeTable(p.league)] >>
    ELSE << >>

NumLongMatches == 20

StatusOfLong(i) ==
    IF i \in {3, 11} THEN "FINISHED" ELSE IF i = 7 THEN "IN_PLAY"
    ELSE IF i % 3 = 0 THEN "POSTPONED" ELSE IF i % 3 = 1 THEN "SCHEDULED" ELSE "TIMED"

\* a match; its homeTeam.name and awayTeam.name are HomeTeamOf and AwayTeamOf
Match(l, i, st, date) == [id |-> i, league |-> l, status |-> st, utcDate |-> date]

HomeTeamOf(m) == TeamName(m.league, 1 + (m.id % 2))
AwayTeamOf(m) == TeamName(m.league, 2 - (m.id % 2))

\* data.matches || []
MatchesOf(p) ==
    IF p.shape = "long"
    THEN [i \in 1 .. NumLongMatches |-> Match(p.league, i, StatusOfLong(i), NumLongMatches - i)]
    ELSE IF p.shape = "short"
    THEN << Match(p.league, 1, "FINISHED", 1), Match(p.league, 2, "TIMED", 3),
            Match(p.league, 3, "SCHEDULED", 2) >>
    ELSE << >>


(***************************************************************************)
(* The program's state (lines 32-36), the DOM it writes (status, the table *)
(* body, the fixtures list) and the asynchronous operations in flight.     *)
(* A task is a call of fetchStandings or fetchFixtures suspended in        *)
(* cachedFetch at `await fetch(...)` / `await res.json()`.  The argument   *)
(* and result of a prediction function called on its own are homeArg,      *)
(* awayArg and result, those of findTeamEntryByName called on its own are  *)
(* nameArg and found.  retrievals, last and firstStored record history:    *)
(* how many times fetch() was called, what the last step did, and the      *)
(* first payload stored under each key.                                    *)
(***************************************************************************)
VARIABLES currentMode, currentLeague, cache, currentTable, currentFixtures,
          status, tbodyView, fixturesView, tasks, retrievals, last, firstStored,
          homeArg, awayArg, result, nameArg, found

appVars == <<currentMode, currentLeague, cache, currentTable, currentFixtures,
             status, tbodyView, fixturesView, tasks, retrievals, last, firstStored>>
callVars == <<homeArg, awayArg, result, nameArg, found>>
vars == <<appVars, callVars>>

MaxTasks == 2
MaxRetrievals == 3

\* line 39
MAX_FIXTURES == 16

Status(kind, league, count) == [kind |-> kind, league |-> league, count |-> count]

ClearedTable == [kind |-> "cleared", table |-> << >>]
FailedTable == [kind |-> "failed", table |-> << >>]
ClearedList == [kind |-> "cleared", items |-> << >>, table |-> << >>]
FailedList == [kind |-> "failed", items |-> << >>, table |-> << >>]

NoKey == <<0, "none">>
NoEvent == [kind |-> "none", op |-> "none", league |-> 0, called |-> {}, issued |-> {},
            returned |-> {}, settled |-> NoKey, outcome |-> "none",
            done |-> "none", standingsFailed |-> FALSE]

\* line 220: (currentTable || []).slice().sort(by position); the sort is
\* stable, elements of equal key keeping their order
SortedByPosition(rows) == SortSeq(rows, LAMBDA a, b : a.position < b.position)

\* line 290: (currentFixtures || []).slice().sort(by utcDate), stable
SortedByDate(items) == SortSeq(items, LAMBDA a, b : a.utcDate < b.utcDate)

\* lines 216-283: the rows shown are the table sorted by position
renderTable(s) ==
    [s EXCEPT !.tbodyView = [kind |-> "rows", table |-> SortedByPosition(s.currentTable)]]

\* Strings are sequences of characters: Space, the lower-case letters
\* 1 .. NumLetters, and their upper-case forms UpperOffset + 1 ..
\* UpperOffset + NumLetters (the names of the provider data, TeamName, are
\* lower-case).  NoName is null / undefined.
Space == 0
NumLetters == 2
UpperOffset == 10
NoName == << -1 >>

\* String.prototype.toLowerCase
toLowerCase(str) ==
    [i \in 1 .. Len(str) |-> IF str[i] > UpperOffset THEN str[i] - UpperOffset ELSE str[i]]

\* String.prototype.trim: without the leading and the trailing spaces
trim(str) ==
    IF \A i \in 1 .. Len(str) : str[i] = Space THEN << >>
    ELSE LET first == CHOOSE i \in 1 .. Len(str) :
                         str[i] # Space /\ \A j \in 1 .. i - 1 : str[j] = Space
             final == CHOOSE i \in 1 .. Len(str) :
                         str[i] # Space /\ \A j \in i + 1 .. Len(str) : str[j] = Space
         IN  SubSeq(str, first, final)

\* String.prototype.includes: part occurs in str as a substring (the empty
\* string occurs in every string)
includes(str, part) ==
    \E i \in 0 .. Len(str) - Len(part) : SubSeq(str, i + 1, i + Len(part)) = part

\* lines 110-114: the predicate handed to find
NameMatches(e, n) ==
    LET tname == toLowerCase(e.team.name)
        short == toLowerCase(e.team.shortName)
        tla == toLowerCase(e.team.tla)
    IN  tname = n \/ short = n \/ tla = n \/ includes(tname, n) \/ includes(n, tname)

\* lines 106-115: null for a falsy name (null or ''), else the first entry
\* of the table that matches the trimmed, lower-cased name, null if none
findTeamEntryByName(name, table) ==
    IF name = NoName \/ name = << >> THEN NoEntry
    ELSE LET n == toLowerCase(trim(name))
         IN  IF \E i \in 1 .. Len(table) : NameMatches(table[i], n)
             THEN table[CHOOSE i \in 1 .. Len(table) :
                            /\ NameMatches(table[i], n)
                            /\ \A j \in 1 .. i - 1 : ~NameMatches(table[j], n)]
             ELSE NoEntry

\* lines 286-451, the search box empty: a card per fixture in date order, its
\* predictions computed from the entries findTeamEntryByName finds in the
\* currentTable of the moment; the view holds the fixtures and that table
renderFixtures(s) ==
    [s EXCEPT !.fixturesView = [kind |-> "cards",
                                items |-> SortedByDate(s.currentFixtures),
                                table |-> s.currentTable]]

CacheNeverHit(c, key) == FALSE

\* line 457
CacheHit(c, key) == c[key] # NoData

StoreBeforeOkCheck(c, key, outcome) ==
    [c EXCEPT ![key] = IF IsPayload(outcome) THEN outcome
                       ELSE [league |-> key[1], mode |-> key[2], shape |-> "none"]]

EvictOnFailure(c, key, outcome) ==
    [c EXCEPT ![key] = IF IsPayload(outcome) THEN outcome ELSE NoData]

\* lines 458-461: the cache after the retrieval for key settled with outcome
CacheAfter(c, key, outcome) ==
    IF IsPayload(outcome) THEN [c EXCEPT ![key] = outcome] ELSE c

\* lines 475 and 498: the TOTAL block, else the first, else none (<< >>)
SelectBlock(standings) ==
    IF \E i \in 1 .. Len(standings) : standings[i].type = "TOTAL"
    THEN << standings[CHOOSE i \in 1 .. Len(standings) :
                /\ standings[i].type = "TOTAL"
                /\ \A j \in 1 .. (i - 1) : standings[j].type # "TOTAL"] >>
    ELSE IF Len(standings) > 0 THEN << standings[1] >> ELSE << >>

UnplayedOrNot(m) == TRUE

\* line 510
Unplayed(m) == m.status = "SCHEDULED" \/ m.status = "TIMED" \/ m.status = "POSTPONED"

\* Array.prototype.slice(0, n)
Slice(seq, n) == SubSeq(seq, 1, IF Len(seq) < n THEN Len(seq) ELSE n)

Task(op, league, await, sf) ==
    [op |-> op, league |-> league, await |-> await, standingsFailed |-> sf]

\* lines 480-484
StandingsFailed(s) ==
    [s EXCEPT !.status = Status("blank", 0, 0), !.tbodyView = FailedTable, !.done = "failed"]

\* lines 475-479
StandingsGot(s, league, data) ==
    LET block == SelectBlock(StandingsOf(data))
    IN  IF block = << >> THEN StandingsFailed(s)
        ELSE renderTable([s EXCEPT !.currentTable = block[1].table,
                                   !.status = Status("standings", data.league, 0),
                                   !.done = "succeeded"])

\* lines 466-474
fetchStandings(s, league) ==
    LET key == <<league, "standings">>
        s1 == [s EXCEPT !.status = Status("loadingStandings", 0, 0),
                        !.tbodyView = ClearedTable,
                        !.currentTable = << >>,
                        !.called = @ \cup {key}]
    IN  IF CacheHit(s1.cache, key)
        THEN StandingsGot([s1 EXCEPT !.returned = @ \cup {<<key, s1.cache[key]>>}],
                          league, s1.cache[key])
        ELSE [s1 EXCEPT !.issued = @ \cup {key},
                        !.tasks = @ (+) SetToBag({Task("fetchStandings", league, "standings", FALSE)})]

\* lines 514-518
FixturesFailed(s) ==
    [s EXCEPT !.status = Status("blank", 0, 0), !.fixturesView = FailedList, !.done = "failed"]

\* lines 508-513
FixturesGot(s, league, data) ==
    LET allMatches == MatchesOf(data)
        unplayed == SelectSeq(allMatches, Unplayed)
        shown == Slice(unplayed, MAX_FIXTURES)
    IN  renderFixtures([s EXCEPT !.currentFixtures = shown,
                                 !.status = Status("fixtures", data.league, Len(shown)),
                                 !.done = "succeeded"])

\* lines 504-507
AwaitFixtures(s, league, sf) ==
    LET key == <<league, "fixtures">>
        s1 == [s EXCEPT !.called = @ \cup {key}, !.standingsFailed = sf]
    IN  IF CacheHit(s1.cache, key)
        THEN FixturesGot([s1 EXCEPT !.returned = @ \cup {<<key, s1.cache[key]>>}],
                         league, s1.cache[key])
        ELSE [s1 EXCEPT !.issued = @ \cup {key},
                        !.tasks = @ (+) SetToBag({Task("fetchFixtures", league, "fixtures", sf)})]

\* lines 498-499
TableForFixturesGot(s, league, data) ==
    LET block == SelectBlock(StandingsOf(data))
    IN  AwaitFixtures([s EXCEPT !.currentTable = IF block = << >> THEN << >> ELSE block[1].table],
                      league, FALSE)

\* lines 500-502
TableForFixturesFailed(s, league) ==
    AwaitFixtures([s EXCEPT !.currentTable = << >>], league, TRUE)

\* lines 488-497
fetchFixtures(s, league) ==
    LET key == <<league, "standings">>
        s1 == [s EXCEPT !.status = Status("loadingFixtures", 0, 0),
                        !.fixturesView = ClearedList,
                        !.currentFixtures = << >>,
                        !.called = @ \cup {key}]
    IN  IF CacheHit(s1.cache, key)
        THEN TableForFixturesGot([s1 EXCEPT !.returned = @ \cup {<<key, s1.cache[key]>>}],
                                 league, s1.cache[key])
        ELSE [s1 EXCEPT !.issued = @ \cup {key},
                        !.tasks = @ (+) SetToBag({Task("fetchFixtures", league, "standings", FALSE)})]

\* the state a handler starts from
Now(tk) ==
    [cache |-> cache, currentTable |-> currentTable, currentFixtures |-> currentFixtures,
     status |-> status, tbodyView |-> tbodyView, fixturesView |-> fixturesView,
     tasks |-> tk, called |-> {}, issued |-> {}, returned |-> {},
     done |-> "pending", standingsFailed |-> FALSE]

\* the state a handler (and the continuations it ran) leaves
Becomes(s, kind, op, league, settled, outcome) ==
    /\ BagCardinality(s.tasks) <= MaxTasks
    /\ cache' = s.cache
    /\ currentTable' = s.currentTable
    /\ currentFixtures' = s.currentFixtures
    /\ status' = s.status
    /\ tbodyView' = s.tbodyView
    /\ fixturesView' = s.fixturesView
    /\ tasks' = s.tasks
    /\ retrievals + Cardinality(s.issued) <= MaxRetrievals
    /\ retrievals' = retrievals + Cardinality(s.issued)
    /\ firstStored' = [k \in Keys |-> IF firstStored[k] = NoData THEN s.cache[k]
                                      ELSE firstStored[k]]
    /\ last' = [kind |-> kind, op |-> op, league |-> league, called |-> s.called,
                issued |-> s.issued, returned |-> s.returned, settled |-> settled,
                outcome |-> outcome, done |-> s.done,
                standingsFailed |-> s.standingsFailed]

OpOfMode(mode) == IF mode = "fixtures" THEN "fetchFixtures" ELSE "fetchStandings"

Fetch(s, mode, league) ==
    IF mode = "fixtures" THEN fetchFixtures(s, league) ELSE fetchStandings(s, league)

\* lines 557-564
selectLeague(league) ==
    /\ currentLeague' = league
    /\ currentMode' = currentMode
    /\ \E s \in {Fetch(Now(tasks), currentMode, league)} :
          Becomes(s, "selectLeague", OpOfMode(currentMode), league, NoKey, "none")
    /\ UNCHANGED callVars

\* lines 524-554
switchMode(mode) ==
    IF mode = currentMode THEN UNCHANGED vars
    ELSE /\ currentMode' = mode
         /\ currentLeague' = currentLeague
         /\ IF currentLeague # NoLeague
            THEN \E s \in {Fetch(Now(tasks), mode, currentLeague)} :
                    Becomes(s, "switchMode", OpOfMode(mode), currentLeague, NoKey, "none")
            ELSE Becomes(Now(tasks), "switchMode", "none", NoLeague, NoKey, "none")
         /\ UNCHANGED callVars

\* lines 587-590: the debounced handler of the search box draws the panel of
\* the current mode again from the current state (the cards or rows the text
\* hides are left out of the views)
searchInput ==
    /\ \E s \in {IF currentMode = "fixtures" THEN renderFixtures(Now(tasks))
                 ELSE renderTable(Now(tasks))} :
          Becomes([s EXCEPT !.done = "none"], "searchInput", "none", currentLeague,
                  NoKey, "none")
    /\ UNCHANGED <<currentMode, currentLeague, callVars>>

\* the retrieval a task waits for settles: with a payload (cachedFetch stores
\* and returns it) or with a failure (cachedFetch throws), and the task runs on
Settle(t, outcome) ==
    /\ BagIn(t, tasks)
    /\ LET key == <<t.league, t.await>>
           ok == IsPayload(outcome)
           s0 == Now(tasks (-) SetToBag({t}))
           s1 == [s0 EXCEPT !.cache = CacheAfter(s0.cache, key, outcome),
                            !.standingsFailed = t.standingsFailed]
           s2 == IF t.op = "fetchStandings"
                 THEN IF ok THEN StandingsGot(s1, t.league, outcome) ELSE StandingsFailed(s1)
                 ELSE IF t.await = "standings"
                 THEN IF ok THEN TableForFixturesGot(s1, t.league, outcome)
                      ELSE TableForFixturesFailed(s1, t.league)
                 ELSE IF ok THEN FixturesGot(s1, t.league, outcome) ELSE FixturesFailed(s1)
       IN  \E s \in {s2} :
              Becomes(s, "settle", t.op, t.league, key, IF ok THEN "ok" ELSE "failed")
    /\ UNCHANGED <<currentMode, currentLeague, callVars>>

\* lines 578-584: a click or key on a league logo; a page without logos (no
\* league selected by init) has none to click
UserSelects == currentLeague # NoLeague /\ \E l \in Leagues : selectLeague(l)
UserSwitches == \E m \in {"fixtures", "standings"} : switchMode(m)
UserSearches == searchInput
RetrievalSettles ==
    \E t \in BagToSet(tasks) :
        \E o \in Payloads(<<t.league, t.await>>) \cup Failures : Settle(t, o)

\* the league of the logo init() finds (the active one, else the first)
ActiveLeague == CHOOSE l \in Leagues : \A m \in Leagues : l <= m

\* lines 32-36, then init() (lines 593-602): selectLeague of the active logo
\* if the page has one, then switchMode(currentMode), which returns at once
InitApp ==
    /\ currentMode = "fixtures"
    /\ cache = [k \in Keys |-> NoData]
    /\ firstStored = [k \in Keys |-> NoData]
    /\ tbodyView = ClearedTable
    /\ currentTable = << >>
    /\ currentFixtures = << >>
    /\ fixturesView = ClearedList
    /\ \E l \in {ActiveLeague, NoLeague} :
        /\ currentLeague = l
        /\ IF l = NoLeague
           THEN /\ status = Status("noLeague", 0, 0)
                /\ tasks = EmptyBag
                /\ retrievals = 0
                /\ last = NoEvent
           ELSE /\ status = Status("loadingFixtures", 0, 0)
                /\ retrievals = 1
                /\ tasks = SetToBag({Task("fetchFixtures", l, "standings", FALSE)})
                /\ last = [NoEvent EXCEPT !.kind = "selectLeague", !.op = "fetchFixtures",
                                          !.league = l, !.called = {<<l, "standings">>},
                                          !.issued = {<<l, "standings">>},
                                          !.done = "pending"]

NoResult == [homePct |-> -1, drawPct |-> -1, awayPct |-> -1, homeGoals |-> -1, awayGoals |-> -1]

NoFound == [called |-> FALSE, entry |-> NoEntry]

NoCall ==
    /\ homeArg = NoEntry
    /\ awayArg = NoEntry
    /\ result = NoResult
    /\ nameArg = NoName
    /\ found = NoFound

Init == InitApp /\ NoCall

Next == UserSelects \/ UserSwitches \/ UserSearches \/ RetrievalSettles

Spec == Init /\ [][Next]_vars


(***************************************************************************)
(* The prediction functions on their own: the arguments are drawn from     *)
(* bounded sets of entries (the examples of the documentation among them), *)
(* and the one step is the call.                                           *)
(***************************************************************************)
MaxStat == 3
MaxPlayed == 3
MaxGD == 4

AnyTeam == <<0, 1>>

ProbArgs ==
    {MkEntry(AnyTeam, 0, w, d, l, 0) : w \in 0 .. MaxStat, d \in 0 .. MaxStat, l \in 0 .. MaxStat}
    \cup {MkEntry(AnyTeam, 0, 10, 5, 3, 20), MkEntry(AnyTeam, 0, 4, 6, 8, -6),
          MkEntry(AnyTeam, 0, 23, 0, 0, 0), MkEntry(AnyTeam, 0, 0, 17, 0, 0)}
    \cup {NoEntry}

ScoreArgs ==
    {[team |-> Team(AnyTeam, << >>, << >>), position |-> 0, won |-> 0, draw |-> 0, lost |-> 0,
      playedGames |-> p, goalDifference |-> g] :
        p \in 0 .. MaxPlayed, g \in (0 - MaxGD) .. MaxGD}
    \cup {MkEntry(AnyTeam, 0, 10, 5, 3, 20), MkEntry(AnyTeam, 0, 4, 6, 8, -6)}
    \cup {NoEntry}

Idle ==
    InitApp /\ currentLeague = NoLeague /\ result = NoResult /\ nameArg = NoName /\ found = NoFound

InitProb == Idle /\ homeArg \in ProbArgs /\ awayArg \in ProbArgs
InitScore == Idle /\ homeArg \in ScoreArgs /\ awayArg \in ScoreArgs

CallProbabilities ==
    /\ result = NoResult
    /\ result' = [NoResult EXCEPT !.homePct = computeProbabilities(homeArg, awayArg).homePct,
                                  !.drawPct = computeProbabilities(homeArg, awayArg).drawPct,
                                  !.awayPct = computeProbabilities(homeArg, awayArg).awayPct]
    /\ UNCHANGED <<appVars, homeArg, awayArg, nameArg, found>>

CallScoreline ==
    /\ result = NoResult
    /\ result' = [NoResult EXCEPT !.homeGoals = computeScoreline(homeArg, awayArg).homeGoals,
                                  !.awayGoals = computeScoreline(homeArg, awayArg).awayGoals]
    /\ UNCHANGED <<appVars, homeArg, awayArg, nameArg, found>>

SpecProb == InitProb /\ [][CallProbabilities]_vars
SpecScore == InitScore /\ [][CallScoreline]_vars


(***************************************************************************)
(* findTeamEntryByName on its own: currentTable is any snapshot of up to   *)
(* MaxSnapshot of the entries below (names that match by name, by          *)
(* shortName only, by tla only, in upper case, and a missing name), the    *)
(* name any string of up to MaxNameLen characters or null, and the one     *)
(* step is the call.                                                       *)
(***************************************************************************)
MaxNameLen == 2
MaxSnapshot == 2

Chars == {Space} \cup (1 .. NumLetters) \cup {UpperOffset + c : c \in 1 .. NumLetters}

Strings(n) == UNION {[1 .. k -> Chars] : k \in 0 .. n}

FindNames == Strings(MaxNameLen) \cup {NoName}

\* "ab"; "A"; "bb" with shortName "a"; "ba" with tla "Ab"; no name, shortName "b"
FindTeams ==
    << Team(<<1, 2>>, << >>, << >>),
       Team(<<UpperOffset + 1>>, << >>, << >>),
       Team(<<2, 2>>, <<1>>, << >>),
       Team(<<2, 1>>, << >>, <<UpperOffset + 1, 2>>),
       Team(<< >>, <<2>>, << >>) >>

FindEntries == {[MkEntry(<< >>, i, 1, 1, 1, 0) EXCEPT !.team = FindTeams[i]] : i \in 1 .. Len(FindTeams)}

Snapshots == UNION {[1 .. k -> FindEntries] : k \in 0 .. MaxSnapshot}

InitFind ==
    /\ currentMode = "fixtures"
    /\ currentLeague = NoLeague
    /\ cache = [k \in Keys |-> NoData]
    /\ firstStored = [k \in Keys |-> NoData]
    /\ tbodyView = ClearedTable
    /\ currentFixtures = << >>
    /\ fixturesView = ClearedList
    /\ status = Status("noLeague", 0, 0)
    /\ tasks = EmptyBag
    /\ retrievals = 0
    /\ last = NoEvent
    /\ homeArg = NoEntry
    /\ awayArg = NoEntry
    /\ result = NoResult
    /\ found = NoFound
    /\ currentTable \in Snapshots
    /\ nameArg \in FindNames

CallFind ==
    /\ ~found.called
    /\ found' = [called |-> TRUE, entry |-> findTeamEntryByName(nameArg, currentTable)]
    /\ UNCHANGED <<appVars, homeArg, awayArg, result, nameArg>>

SpecFind == InitFind /\ [][CallFind]_vars

ProbResult == [homePct |-> result.homePct, drawPct |-> result.drawPct, awayPct |-> result.awayPct]
ProbCalled == result.homePct # -1 \/ result.drawPct # -1
ScoreCalled == result.homeGoals # -1

\* C1: the three percentages computeProbabilities returns add up to 100, on
\* the fallback path and on the computed path
C1_SumIs100 ==
    ProbCalled => result.homePct + result.drawPct + result.awayPct = 100

C1_Witness ==
    /\ ProbCalled
    /\ homeArg = MkEntry(AnyTeam, 0, 10, 5, 3, 20)
    /\ awayArg = MkEntry(AnyTeam, 0, 4, 6, 8, -6)
    /\ ProbResult = [homePct |-> 47, drawPct |-> 29, awayPct |-> 24]

\* C2: each of the three percentages computeProbabilities returns is >= 0
C2_NonNegative ==
    ProbCalled => result.homePct >= 0 /\ result.drawPct >= 0 /\ result.awayPct >= 0

\* the claim's reference model: round(100 * val / total), ties upwards
RefRound(val, total) == (200 * val + total) \div (2 * total)

Stat(e, f) == IF e = NoEntry THEN 0 ELSE e[f]

RefProbabilities(h, a) ==
    LET homeScore == Stat(h, "won") + Stat(a, "lost")
        drawScore == Stat(h, "draw") + Stat(a, "draw")
        awayScore == Stat(a, "won") + Stat(h, "draw")
        total == homeScore + drawScore + awayScore
    IN  IF total <= 0 THEN [homePct |-> 50, drawPct |-> 30, awayPct |-> 20]
        ELSE [homePct |-> RefRound(homeScore, total),
              drawPct |-> RefRound(drawScore, total),
              awayPct |-> 100 - RefRound(homeScore, total) - RefRound(drawScore, total)]

\* C4: computeProbabilities returns what the reference model gives:
\* {50,30,20} when total <= 0, else round(100*homeScore/total),
\* round(100*drawScore/total) and 100 minus the two
C4_EqualsReference ==
    ProbCalled => ProbResult = RefProbabilities(homeArg, awayArg)

\* C3: computeScoreline returns homeGoals >= 0 and awayGoals >= 0, never
\* both 0
C3_GoalsNonNegativeNotBothZero ==
    ScoreCalled =>
        /\ result.homeGoals >= 0
        /\ result.awayGoals >= 0
        /\ ~(result.homeGoals = 0 /\ result.awayGoals = 0)

C3_Witness ==
    /\ ScoreCalled
    /\ homeArg # NoEntry /\ homeArg.playedGames = 1 /\ homeArg.goalDifference = 0 - MaxGD
    /\ awayArg # NoEntry /\ awayArg.playedGames = 1 /\ awayArg.goalDifference = MaxGD
    /\ result.homeGoals = 0
    /\ result.awayGoals > 0


(***************************************************************************)
(* The cache and the asynchronous operations.                              *)
(***************************************************************************)
LeagueOfEntry(e) == e.team.name[1]

AllOfLeague(seq, l, LeagueOf(_)) == \A i \in 1 .. Len(seq) : LeagueOf(seq[i]) = l
LeagueOfMatch(m) == m.league

\* the session shows league l in the given mode: its data drawn under its
\* status line, or the failure message (an empty list once the search box
\* has drawn the panel again) under a blank status line
ShowsFixturesOf(l) ==
    /\ AllOfLeague(currentFixtures, l, LeagueOfMatch)
    /\ AllOfLeague(currentTable, l, LeagueOfEntry)
    /\ \/ /\ status.kind = "blank"
          /\ currentFixtures = << >>
          /\ \/ fixturesView.kind = "failed"
             \/ fixturesView.kind = "cards" /\ fixturesView.items = << >>
       \/ /\ status.kind = "fixtures" /\ status.league = l
          /\ fixturesView.kind = "cards"
          /\ fixturesView.items = SortedByDate(currentFixtures)

ShowsStandingsOf(l) ==
    /\ AllOfLeague(currentTable, l, LeagueOfEntry)
    /\ \/ /\ status.kind = "blank"
          /\ currentTable = << >>
          /\ \/ tbodyView.kind = "failed"
             \/ tbodyView.kind = "rows" /\ tbodyView.table = << >>
       \/ /\ status.kind = "standings" /\ status.league = l
          /\ tbodyView.kind = "rows"
          /\ tbodyView.table = SortedByPosition(currentTable)

\* C5: once no retrieval is outstanding, the session state is that of the
\* latest requested league and mode, whatever the order of completions
C5_LatestSelectionWins ==
    (tasks = EmptyBag /\ currentLeague # NoLeague) =>
        IF currentMode = "fixtures" THEN ShowsFixturesOf(currentLeague)
        ELSE ShowsStandingsOf(currentLeague)

\* C6: the step in which the retrieval for a key fails leaves the cache as it
\* was (an unset key stays unset), and a cachedFetch for an unset key calls
\* fetch()
C6_FailureStoresNothing ==
    [][\A k \in Keys :
        /\ (last'.settled = k /\ last'.outcome = "failed") => cache' = cache
        /\ (k \in last'.called /\ cache[k] = NoData) => k \in last'.issued]_vars

C6_Witness ==
    /\ last.outcome = "failed"
    /\ last.settled \in Keys
    /\ cache[last.settled] = NoData

\* C7 as stated: once a retrieval for a key has stored its payload, every
\* later cachedFetch for the key returns that payload and calls no fetch()
C7_ReturnsFirstStored ==
    [][\A k \in Keys :
        (firstStored[k] # NoData /\ k \in last'.called) =>
            /\ k \notin last'.issued
            /\ <<k, firstStored[k]>> \in last'.returned]_vars

\* C7 amended: a cachedFetch for a key that has an entry returns the payload
\* the cache holds for the key at that moment and calls no fetch()
C7_ReturnsStored ==
    [][\A k \in Keys :
        (cache[k] # NoData /\ k \in last'.called) =>
            /\ k \notin last'.issued
            /\ <<k, cache[k]>> \in last'.returned]_vars

C7_Witness ==
    \E k \in Keys :
        /\ <<k, cache[k]>> \in last.returned
        /\ last.issued = {}
        /\ firstStored[k] # cache[k]

\* C8 as stated: once cache[key] holds a payload it holds that same payload
\* in every later state
C8_EntryNeverChanges ==
    [][\A k \in Keys : cache[k] # NoData => cache'[k] = cache[k]]_vars

\* C8 amended: an entry is never removed, no retrieval is started for a key
\* that has an entry, and an entry changes only when a retrieval for its key
\* (one already in flight when the entry was stored) succeeds
C8_EntryOnlyReplacedByInFlight ==
    [][\A k \in Keys : cache[k] # NoData =>
        /\ cache'[k] # NoData
        /\ k \notin last'.issued
        /\ cache'[k] # cache[k] => (last'.settled = k /\ last'.outcome = "ok")]_vars

C8_Witness ==
    \E k \in Keys :
        /\ firstStored[k] # NoData
        /\ cache[k] # firstStored[k]
        /\ last.settled = k

ClaimedStatuses == {"SCHEDULED", "TIMED", "POSTPONED"}

\* the first n elements of list with a claimed status, in the list's order
RECURSIVE FirstClaimed(_, _)
FirstClaimed(list, n) ==
    IF n = 0 \/ list = << >> THEN << >>
    ELSE IF Head(list).status \in ClaimedStatuses
    THEN <<Head(list)>> \o FirstClaimed(Tail(list), n - 1)
    ELSE FirstClaimed(Tail(list), n)

C10_StandingsFailureStillShowsFixtures ==
    /\ \A l \in Leagues : <<l, "fixtures">> \in last.called =>
          \/ last.settled = <<l, "standings">>
          \/ \E p \in Payloads(<<l, "standings">>) : <<<<l, "standings">>, p>> \in last.returned
    /\ (last.op = "fetchFixtures" /\ last.outcome = "failed" /\ last.settled[2] = "standings") =>
          /\ <<last.league, "fixtures">> \in last.called
          /\ currentTable = << >>
    /\ (last.op = "fetchFixtures" /\ last.done = "succeeded" /\ last.standingsFailed) =>
          /\ fixturesView.kind = "cards"
          /\ fixturesView.items = SortedByDate(currentFixtures)
          /\ \A i \in 1 .. Len(fixturesView.items) :
                /\ findTeamEntryByName(HomeTeamOf(fixturesView.items[i]),
                                       fixturesView.table) = NoEntry
                /\ findTeamEntryByName(AwayTeamOf(fixturesView.items[i]),
                                       fixturesView.table) = NoEntry


(***************************************************************************)
(* The team lookup.                                                        *)
(***************************************************************************)
\* the query is empty or blank: null, '' or spaces only
Blank(name) == name = NoName \/ \A i \in 1 .. Len(name) : name[i] = Space

\* str without its leading spaces / without its trailing spaces
RECURSIVE DropLeading(_)
DropLeading(str) ==
    IF str # << >> /\ Head(str) = Space THEN DropLeading(Tail(str)) ELSE str

RECURSIVE DropTrailing(_)
DropTrailing(str) ==
    IF str # << >> /\ str[Len(str)] = Space
    THEN DropTrailing(SubSeq(str, 1, Len(str) - 1)) ELSE str

Lower(c) == IF c > UpperOffset THEN c - UpperOffset ELSE c
LowerStr(str) == [i \in 1 .. Len(str) |-> Lower(str[i])]

\* the normalized query
Normalized(name) == LowerStr(DropTrailing(DropLeading(name)))

Contains(str, part) ==
    \E a, b \in 0 .. Len(str) : a <= b /\ SubSeq(str, a + 1, b) = part

\* the entry matches the normalized query q as the claim has it
RefMatches(e, q) ==
    \/ LowerStr(e.team.name) = q
    \/ LowerStr(e.team.shortName) = q
    \/ LowerStr(e.team.tla) = q
    \/ Contains(LowerStr(e.team.name), q)
    \/ Contains(q, LowerStr(e.team.name))

RefFind(name, table) ==
    IF Blank(name) THEN NoEntry
    ELSE LET q == Normalized(name)
             hits == {i \in 1 .. Len(table) : RefMatches(table[i], q)}
         IN  IF hits = {} THEN NoEntry
             ELSE table[CHOOSE i \in hits : \A j \in hits : i <= j]

\* C11: findTeamEntryByName returns absent for an empty or blank query and
\* when no entry matches the normalized query (by name, shortName or tla, or
\* by the name containing the query or the query the name), else the first
\* matching entry in snapshot order
C11_FindsFirstMatchOrAbsent ==
    found.called => found.entry = RefFind(nameArg, currentTable)

\* C11 for the queries that are not blank
C11_NonBlankFindsFirstMatchOrAbsent ==
    (found.called /\ ~Blank(nameArg)) => found.entry = RefFind(nameArg, currentTable)

\* C11 for the empty string and null
C11_EmptyIsAbsent ==
    (found.called /\ nameArg \in {NoName, << >>}) => found.entry = NoEntry


(***************************************************************************)
(* The standings the predictions are computed from.                        *)
(***************************************************************************)
\* C12: whenever renderFixtures has drawn the cards of a non-empty
\* currentFixtures, the currentTable it resolved the teams against was empty
\* or the table of the league of those fixtures
C12_PredictionsFromSameLeague ==
    (fixturesView.kind = "cards" /\ fixturesView.items # << >>) =>
        \A i \in 1 .. Len(fixturesView.items) :
            AllOfLeague(fixturesView.table, fixturesView.items[i].league, LeagueOfEntry)

====
